---- MODULE Spec2Model ----
(***************************************************************************)
(* The fetch-dedup-persist pipeline of youngouk/cx_fast.                   *)
(*                                                                         *)
(*   getQnA.py      selenium listing, aiohttp details, SQLite store        *)
(*   getQnA_bs4.py  aiohttp listing and details, SQLite store              *)
(*   getQnA_Dy.py   selenium listing, aiohttp details, DynamoDB store      *)
(*   delete_table.py  the DDL of the SQLite table kin_data                 *)
(*   getQuestion1.py  the search API handler writing to DynamoDB           *)
(*                                                                         *)
(* The specifications share the definitions:                               *)
(*   Spec         sequential runs of main, one variant per behaviour       *)
(*   SpecOverlap  two runs of main of getQnA_bs4.py over one store         *)
(*   SpecFetch    the detail fetches of one cohort, attempt by attempt     *)
(*   SpecRun      one run of main with its detail fetches interleaved      *)
(*   SpecRunFair  SpecRun under weak fairness of the run's steps           *)
(*   SpecParse    the parse of one detail page by scrape_detail_page       *)
(*   SpecTitle    clean_title applied to one raw title                     *)
(*   SpecListing  the extraction loop of scrape_search_results             *)
(*   SpecLambda   invocations of lambda_handler of getQuestion1.py         *)
(***************************************************************************)
EXTENDS Integers, Sequences, FiniteSets

VARIABLES
    variant,         \* which main runs: "getQnA", "getQnA_bs4", "getQnA_Dy"
    store_state,     \* "ok", "table_missing" or "unreachable"
    table_columns,   \* the columns of table kin_data in naver_kin.db
    store,           \* the rows of kin_data (the items of the DynamoDB table)
    entries,         \* the urls of the entries the listing page shows
    listing,         \* per run: how scrape_search_results ended
    fetched,         \* per run: the kinds of page the run has requested
    faults,          \* transient store errors raised so far
    pc,              \* per run of main: its position
    run,             \* per process: how many runs of main it has started
    idx,             \* per run: index of the loop it is in
    tasks,           \* per run: the urls of the coroutines handed to gather
    fate,            \* per run: how each task's scrape_detail_page ended
    details,         \* per run: what asyncio.gather returned
    aborted,         \* per run: an exception reached main's except clause
    store0,          \* per run: the store when the run started
    skipped,         \* per run: the urls the dedup filter skipped
    attempted,       \* per run: zip positions for which a save was called
    written,         \* per run: zip positions whose write was committed
    rejected,        \* per run: zip positions whose write raised
    prev_all,        \* per run: the run before it wrote every listed position
    f_urls,          \* SpecFetch: the urls of the cohort
    f_pc,            \* SpecFetch: per task, its position in fetch_with_retry
    f_attempts,      \* SpecFetch: per task, session.get calls made
    f_slept,         \* SpecFetch: per task, time spent in asyncio.sleep
    f_result,        \* SpecFetch: per task, what scrape_detail_page returned
    soup,            \* SpecParse: the detail page handed to the parser
    parsed,          \* SpecParse: what the parser returned for it
    raw_title,       \* SpecTitle: the text of a listing entry's title anchor
    cleaned,         \* SpecTitle: what clean_title returned for it
    conn,            \* per run: the sqlite3 connection main holds
    driver,          \* per run: the browser driver main holds
    closes,          \* per run: conn.close() calls
    quits,           \* per run: driver.quit() calls
    items,           \* SpecListing: the li elements of the listing page
    extracted,       \* SpecListing: how the extraction loop ended
    l_pc,            \* SpecLambda: position of lambda_handler
    l_calls,         \* SpecLambda: invocations of lambda_handler so far
    l_items,         \* SpecLambda: the links of search_result['items']
    l_idx,           \* SpecLambda: index of the item loop
    l_table,         \* SpecLambda: the items of table NaverKinQuestions
    l_table0,        \* SpecLambda: the table when the invocation began
    l_failed,        \* SpecLambda: what raised in the invocation, if anything
    l_status         \* SpecLambda: the statusCode the invocation returned

pipe_vars == <<variant, store_state, table_columns, store, entries,
               listing, fetched, faults, pc, run, idx, tasks, fate, details,
               aborted, store0, skipped, attempted, written, rejected,
               prev_all>>
fetch_vars == <<f_urls, f_pc, f_attempts, f_slept, f_result>>
text_vars == <<soup, parsed, raw_title, cleaned>>
page_vars == <<items, extracted>>
res_vars == <<conn, driver, closes, quits>>
lambda_vars == <<l_pc, l_calls, l_items, l_idx, l_table, l_table0, l_failed,
                 l_status>>
vars == <<pipe_vars, fetch_vars, text_vars, page_vars, res_vars,
          lambda_vars>>

(***************************************************************************)
(* Bounds and program constants                                            *)
(***************************************************************************)
MaxListing == 3      \* longest listing
MaxRuns == 2         \* runs of main per process in Spec
MaxFaults == 1       \* transient store errors per behaviour
MaxCohort == 2       \* tasks of the cohort in SpecFetch
MaxOverlapListing == 2   \* longest listing in SpecOverlap

MAX_RETRIES == 3
RETRY_DELAY == 5

Max(S) == CHOOSE x \in S : \A y \in S : y <= x
Min2(a, b) == IF a <= b THEN a ELSE b

\* A url is named by a number; the urls of a listing are numbered in the
\* order of their first appearance (the code treats urls as opaque strings).
URLs == 1..MaxListing
FirstAppearance(s) ==
    \A i \in DOMAIN s : s[i] <= 1 + Max({0} \cup {s[j] : j \in 1..(i - 1)})
ListingsUpTo(n) ==
    {s \in UNION {[1..m -> URLs] : m \in 0..n} : FirstAppearance(s)}
Listings == ListingsUpTo(MaxListing)

Procs == {1, 2}
Empty == 0           \* the {} that scrape_detail_page returns on failure

(***************************************************************************)
(* The store                                                               *)
(***************************************************************************)
\* delete_table.py: CREATE TABLE kin_data. The only constraint is the
\* primary key on id; url carries no UNIQUE constraint.
DdlColumns ==
    {"id", "title", "url", "date", "author", "views", "created_at",
     "question_detail", "tags", "scraped_at"}

\* The columns the INSERT of save_to_database names.
InsertColumns_question_detail ==
    {"title", "url", "date", "author", "views", "created_at",
     "question_detail", "tags", "scraped_at"}
InsertColumns ==
    {"title", "url", "date", "author", "views", "created_at",
     "description", "tags", "scraped_at"}

\* main never creates kin_data: it finds the table in naver_kin.db, either
\* as delete_table.py creates it (the INSERT then names a column the table
\* lacks: description against question_detail) or with the columns the
\* INSERT names. The constraints are those of delete_table.py in both.
Tables == {DdlColumns, InsertColumns \cup {"id"}}

\* The key get_item of getQnA_Dy.py names: partition key url, sort key date.
DynamoKey == {"url", "date"}

SqliteVariants == {"getQnA", "getQnA_bs4"}
Variants == SqliteVariants \cup {"getQnA_Dy"}

\* The date text of a listed entry (dd.txt_inline of the entry).
ListedDate(url) == "2024.09.12."

\* The title of a page is named by where it was read and the url it was read
\* from: the listing entry (already cleaned by clean_title) or the detail page.
ListedTitle(url) == <<"listing", url>>
DetailTitle(url) == <<"detail", url>>

\* search_results.append({"title": title, "url": url, "date": date})
ListingEntry(url) ==
    [title |-> ListedTitle(url), url |-> url, date |-> ListedDate(url)]

\* The dict scrape_detail_page returns for the page of a url: its title and
\* the detail fields (author, views, created_at, description, tags,
\* scraped_at), which are named together by the url they were parsed from.
DetailRecord(url) == [title |-> DetailTitle(url), detail |-> url]

\* detail.pop('title', None)
Pop_KeepsKey(d, key) == d
Pop(d, key) == [k \in DOMAIN d \ {key} |-> d[k]]

\* {**a, **b}: the keys of both, the value of b where both have the key.
DictMerge(a, b) ==
    [k \in DOMAIN a \cup DOMAIN b |-> IF k \in DOMAIN b THEN b[k] ELSE a[k]]

\* A row keeps the title, url and date of the listing entry it was merged
\* from and names, in detail, the url of the page its detail fields were
\* parsed from.
Row(url, detail) ==
    [title |-> ListedTitle(url), url |-> url, date |-> ListedDate(url),
     detail |-> detail]

Present(st, url) == \E i \in DOMAIN st : st[i].url = url
RowsOf(st, url) == SelectSeq(st, LAMBDA r : r.url = url)

\* url_exists of getQnA.py and getQnA_bs4.py: SELECT 1 ... WHERE url = ?
url_exists_sqlite(st, url) == \E i \in DOMAIN st : st[i].url = url

\* url_exists of getQnA_Dy.py: get_item with Key {url, date: 'some_date'}
url_exists_dynamodb(st, url) ==
    \E i \in DOMAIN st : st[i].url = url /\ st[i].date = "some_date"

url_exists(v, st, url) ==
    IF v = "getQnA_Dy" THEN url_exists_dynamodb(st, url)
    ELSE url_exists_sqlite(st, url)

\* sqlite3 prepares the INSERT only if the table has every column it names;
\* otherwise it raises OperationalError (no column named ...).
StatementOk(v, cols) == v = "getQnA_Dy" \/ InsertColumns \subseteq cols

\* INSERT OR REPLACE INTO kin_data: id is assigned by AUTOINCREMENT, so no
\* constraint of the table conflicts and the row is added.
sqlite_insert(st, data) == Append(st, data)

\* put_item: the item replaces the one with the same key, if any.
put_item(st, data) ==
    IF \E i \in DOMAIN st : st[i].url = data.url /\ st[i].date = data.date
    THEN [i \in DOMAIN st |->
            IF st[i].url = data.url /\ st[i].date = data.date
            THEN data ELSE st[i]]
    ELSE Append(st, data)

Write(v, st, data) ==
    IF v = "getQnA_Dy" THEN put_item(st, data) ELSE sqlite_insert(st, data)

(***************************************************************************)
(* scrape_detail_page as a function of what the network answers            *)
(***************************************************************************)
\* What one session.get / response.text() can do: deliver a page with all
\* the elements, deliver a page that lacks one, raise aiohttp.ClientError
\* (connection errors, and the socket timeouts aiohttp derives from it), or
\* raise asyncio.TimeoutError (the total timeout of the session, which is
\* no ClientError).
Responses == {"html", "malformed", "client_error", "timeout"}
Plans == [1..MAX_RETRIES -> Responses]

\* fetch_with_retry: for _ in range(MAX_RETRIES), only ClientError is caught.
RECURSIVE fetch_with_retry(_, _)
fetch_with_retry(plan, i) ==
    IF i > MAX_RETRIES THEN [kind |-> "exhausted", attempts |-> MAX_RETRIES]
    ELSE IF plan[i] = "client_error" THEN fetch_with_retry(plan, i + 1)
    ELSE IF plan[i] = "timeout" THEN [kind |-> "raise", attempts |-> i]
    ELSE [kind |-> plan[i], attempts |-> i]

\* How scrape_detail_page ends: "ok" a record, "net_fail" {} after the
\* retries, "parse_fail" {} after AttributeError, "timeout" the exception
\* leaves the coroutine.
scrape_detail_page(plan) ==
    LET r == fetch_with_retry(plan, 1) IN
    CASE r.kind = "html" -> "ok"
      [] r.kind = "malformed" -> "parse_fail"
      [] r.kind = "exhausted" -> "net_fail"
      [] r.kind = "raise" -> "timeout"

Fates == {scrape_detail_page(plan) : plan \in Plans}

\* The value gather returns for one task: the record parsed from the page
\* of the task's url, or {}.
DetailOf(url, f) == IF f = "ok" THEN url ELSE Empty

\* details = await asyncio.gather(*tasks): one result per task, in order.
GatherResults_DropEmpty(ts, f) ==
    LET all == [k \in DOMAIN ts |-> DetailOf(ts[k], f[k])]
    IN SelectSeq(all, LAMBDA d : d # Empty)
GatherResults(ts, f) == [k \in DOMAIN ts |-> DetailOf(ts[k], f[k])]

(***************************************************************************)
(* main                                                                    *)
(***************************************************************************)
Upd(f, p, v) == [f EXCEPT ![p] = v]

\* How scrape_search_results can end: the entries of the page are returned;
\* WebDriverWait raises TimeoutException and [] is returned (selenium
\* variants); the retries are exhausted and [] is returned; or an exception
\* it does not catch leaves it (asyncio.TimeoutError, WebDriverException).
ListingOutcomes(v) ==
    IF v = "getQnA_bs4" THEN {"ok", "retries_exhausted", "raised"}
    ELSE {"ok", "wait_timeout", "retries_exhausted", "raised"}

scrape_search_results_NoEarlyReturn(outcome, page_entries) ==
    IF outcome \in {"ok", "wait_timeout"} THEN page_entries ELSE <<>>
scrape_search_results(outcome, page_entries) ==
    IF outcome = "ok" THEN page_entries ELSE <<>>

\* search_results of main: what scrape_search_results returned to the run.
search_results(p) == scrape_search_results(listing[p], entries)

\* zip(search_results, details) stops at the shorter of the two.
ZipLen(results, ds) == Min2(Len(results), Len(ds))

\* detail.pop('title', None); data = {**result, **detail}, for the listing
\* entry at position k and details[k].
Merged(p, k) ==
    DictMerge(ListingEntry(search_results(p)[k]),
              Pop(DetailRecord(details[p][k]), "title"))

\* get_db_connection: sqlite3.connect creates naver_kin.db when the file is
\* missing and raises OperationalError when it cannot be opened.
\* get_dynamodb_table makes no request: boto3 resources are lazy.
ConnectRaises(v, ss) == v \in SqliteVariants /\ ss = "unreachable"

\* url_exists of the SQLite variants lets the sqlite3.Error of its SELECT
\* out (no such table); url_exists of getQnA_Dy.py catches every exception
\* and returns False.
url_exists_raises(v, ss) == v \in SqliteVariants /\ ss # "ok"

\* except sqlite3.Error: conn.rollback(). Every earlier INSERT of the run
\* was committed on its own, so the rollback undoes the failed one only.
OnStoreError_RollbackRun(p) == store0[p]
OnStoreError(p) == store

\* What main holds once get_db_connection / get_dynamodb_table and
\* initialize_webdriver have returned: getQnA_Dy.py has no connection,
\* getQnA_bs4.py no driver.
OpenedConn(v) == IF v \in SqliteVariants THEN "open" ELSE "none"
StartedDriver(v) == IF v = "getQnA_bs4" THEN "none" ELSE "started"

\* initialize_webdriver returns the driver (TRUE) or raises, when Chrome or
\* its driver cannot be started; getQnA_bs4.py starts no driver.
DriverStarts(v) == IF v = "getQnA_bs4" THEN {TRUE} ELSE {TRUE, FALSE}

SetResources(p, c, d, nc, nq) ==
    /\ conn' = Upd(conn, p, c)
    /\ driver' = Upd(driver, p, d)
    /\ closes' = Upd(closes, p, nc)
    /\ quits' = Upd(quits, p, nq)

\* The finally clause of main: driver.quit() and conn.close() in getQnA.py,
\* conn.close() in getQnA_bs4.py, driver.quit() in getQnA_Dy.py.
Finally(p, c, d, nc, nq) ==
    SetResources(p,
                 IF variant \in SqliteVariants THEN "closed" ELSE c,
                 IF variant = "getQnA_bs4" THEN d ELSE "quit",
                 IF variant \in SqliteVariants THEN nc + 1 ELSE nc,
                 IF variant = "getQnA_bs4" THEN nq ELSE nq + 1)

\* The finally clause runs when the try statement of main is left.
Release(p) ==
    IF pc'[p] = "done"
    THEN Finally(p, conn[p], driver[p], closes[p], quits[p])
    ELSE UNCHANGED res_vars

\* The run begins: conn/table and driver are obtained, the listing is
\* scraped, the loop over search_results starts. An exception of
\* get_db_connection or of initialize_webdriver leaves main before its try
\* statement, so no except or finally clause of main sees it.
Begin(p) ==
    /\ run' = Upd(run, p, run[p] + 1)
    /\ store0' = Upd(store0, p, store)
    /\ tasks' = Upd(tasks, p, <<>>)
    /\ fate' = Upd(fate, p, <<>>)
    /\ details' = Upd(details, p, <<>>)
    /\ skipped' = Upd(skipped, p, {})
    /\ attempted' = Upd(attempted, p, {})
    /\ written' = Upd(written, p, {})
    /\ rejected' = Upd(rejected, p, {})
    /\ idx' = Upd(idx, p, 1)
    /\ IF ConnectRaises(variant, store_state)
       THEN /\ listing' = Upd(listing, p, "not_called")
            /\ fetched' = Upd(fetched, p, {})
            /\ aborted' = Upd(aborted, p, TRUE)
            /\ pc' = Upd(pc, p, "crashed")
            /\ SetResources(p, "none", "none", 0, 0)
       ELSE \E started \in DriverStarts(variant) :
            IF ~started
            THEN /\ listing' = Upd(listing, p, "not_called")
                 /\ fetched' = Upd(fetched, p, {})
                 /\ aborted' = Upd(aborted, p, TRUE)
                 /\ pc' = Upd(pc, p, "crashed")
                 /\ SetResources(p, OpenedConn(variant), "none", 0, 0)
            ELSE \E o \in ListingOutcomes(variant) :
                 /\ listing' = Upd(listing, p, o)
                 /\ fetched' = Upd(fetched, p, {"listing"})
                 /\ aborted' = Upd(aborted, p, o = "raised")
                 /\ pc' = Upd(pc, p,
                        IF o = "raised" THEN "done"
                        ELSE IF Len(scrape_search_results(o, entries)) = 0
                             THEN "gather" ELSE "filter")
                 /\ IF o = "raised"
                    THEN Finally(p, OpenedConn(variant),
                                 StartedDriver(variant), 0, 0)
                    ELSE SetResources(p, OpenedConn(variant),
                                      StartedDriver(variant), 0, 0)
    /\ UNCHANGED <<variant, store_state, table_columns, store, entries, faults,
                   fetch_vars, text_vars, page_vars, lambda_vars>>

\* The first run of a process.
StartRun(p) ==
    /\ pc[p] = "idle"
    /\ prev_all' = Upd(prev_all, p, FALSE)
    /\ Begin(p)

\* main is run again (the periodic invocation) against the same listing page.
Rerun(p) ==
    /\ pc[p] \in {"done", "crashed"}
    /\ run[p] < MaxRuns
    /\ prev_all' = Upd(prev_all, p,
                       /\ ~aborted[p]
                       /\ listing[p] = "ok"
                       /\ written[p] = 1..Len(entries))
    /\ Begin(p)

\* One turn of `for result in search_results`: the dedup check, and the
\* coroutine of a new url is appended to tasks. An exception of url_exists
\* reaches `except Exception` of main, which ends the run.
FilterStep(p) ==
    /\ pc[p] = "filter"
    /\ LET i == idx[p]
           url == search_results(p)[i]
       IN IF url_exists_raises(variant, store_state)
          THEN /\ aborted' = Upd(aborted, p, TRUE)
               /\ pc' = Upd(pc, p, "done")
               /\ UNCHANGED <<skipped, tasks, idx>>
          ELSE /\ aborted' = aborted
               /\ IF url_exists(variant, store, url)
                  THEN /\ skipped' = Upd(skipped, p, skipped[p] \cup {url})
                       /\ tasks' = tasks
                  ELSE /\ tasks' = Upd(tasks, p, Append(tasks[p], url))
                       /\ skipped' = skipped
               /\ IF i = Len(search_results(p))
                  THEN /\ pc' = Upd(pc, p, "gather")
                       /\ idx' = Upd(idx, p, 1)
                  ELSE /\ pc' = pc
                       /\ idx' = Upd(idx, p, i + 1)
    /\ Release(p)
    /\ UNCHANGED <<variant, store_state, table_columns, store, entries, listing,
                   fetched, faults, run, fate, details, store0, attempted,
                   written, rejected, prev_all, fetch_vars, text_vars, page_vars, lambda_vars>>

\* details = await asyncio.gather(*tasks): every task runs
\* scrape_detail_page; an exception of a task leaves gather and reaches
\* `except Exception` of main, which ends the run.
Gather(p) ==
    /\ pc[p] = "gather"
    /\ fetched' = Upd(fetched, p,
                      fetched[p] \cup (IF tasks[p] = <<>> THEN {} ELSE {"detail"}))
    /\ \E f \in [DOMAIN tasks[p] -> Fates] :
         /\ fate' = Upd(fate, p, f)
         /\ IF \E k \in DOMAIN f : f[k] = "timeout"
            THEN /\ aborted' = Upd(aborted, p, TRUE)
                 /\ details' = details
                 /\ pc' = Upd(pc, p, "done")
            ELSE /\ aborted' = aborted
                 /\ details' = Upd(details, p, GatherResults(tasks[p], f))
                 /\ pc' = Upd(pc, p,
                       IF ZipLen(search_results(p), GatherResults(tasks[p], f)) = 0
                       THEN "done" ELSE "persist")
    /\ Release(p)
    /\ UNCHANGED <<variant, store_state, table_columns, store, entries, listing,
                   faults, run, idx, tasks, store0, skipped, attempted, written,
                   rejected, prev_all, fetch_vars, text_vars, page_vars, lambda_vars>>

\* The end of one turn of `for result, detail in zip(...)`.
Advance(p, k) ==
    /\ idx' = Upd(idx, p, k + 1)
    /\ pc' = Upd(pc, p, IF k + 1 > ZipLen(search_results(p), details[p])
                        THEN "done" ELSE "persist")

\* The INSERT / put_item of a save: it is committed, or it raises and the
\* except clause of the save logs it. It always raises when the store cannot
\* be reached or the table lacks a column the INSERT names; otherwise the
\* store may fail transiently.
Commit(p, k) ==
    \/ /\ StatementOk(variant, table_columns)
       /\ store_state = "ok"
       /\ store' = Write(variant, store, Merged(p, k))
       /\ written' = Upd(written, p, written[p] \cup {k})
       /\ UNCHANGED <<rejected, faults>>
    \/ /\ ~StatementOk(variant, table_columns) \/ store_state # "ok"
       /\ store' = OnStoreError(p)
       /\ rejected' = Upd(rejected, p, rejected[p] \cup {k})
       /\ UNCHANGED <<written, faults>>
    \/ /\ StatementOk(variant, table_columns)
       /\ store_state = "ok"
       /\ faults < MaxFaults
       /\ faults' = faults + 1
       /\ store' = OnStoreError(p)
       /\ rejected' = Upd(rejected, p, rejected[p] \cup {k})
       /\ UNCHANGED written

\* One turn of the persist loop of getQnA.py and getQnA_Dy.py.
PersistStep(p) ==
    /\ pc[p] = "persist"
    /\ variant \in {"getQnA", "getQnA_Dy"}
    /\ LET k == idx[p] IN
         /\ IF details[p][k] = Empty
            THEN UNCHANGED <<store, attempted, written, rejected, faults>>
            ELSE /\ attempted' = Upd(attempted, p, attempted[p] \cup {k})
                 /\ Commit(p, k)
         /\ Advance(p, k)
    /\ Release(p)
    /\ UNCHANGED <<variant, store_state, table_columns, entries, listing,
                   fetched, run, tasks, fate, details, aborted, store0,
                   skipped, prev_all, fetch_vars, text_vars, page_vars, lambda_vars>>

\* One turn of the persist loop of getQnA_bs4.py, up to the SELECT of
\* save_to_database: a url that is found is skipped.
PersistStepBs4(p) ==
    /\ pc[p] = "persist"
    /\ variant = "getQnA_bs4"
    /\ LET k == idx[p] IN
         IF details[p][k] = Empty
         THEN /\ Advance(p, k)
              /\ UNCHANGED attempted
         ELSE /\ attempted' = Upd(attempted, p, attempted[p] \cup {k})
              /\ IF url_exists_sqlite(store, search_results(p)[k])
                 THEN Advance(p, k)
                 ELSE /\ pc' = Upd(pc, p, "insert")
                      /\ idx' = idx
    /\ Release(p)
    /\ UNCHANGED <<variant, store_state, table_columns, store, entries, listing,
                   fetched, faults, run, tasks, fate, details, aborted, store0,
                   skipped, written, rejected, prev_all, fetch_vars, text_vars, page_vars, lambda_vars>>

\* The INSERT and commit of save_to_database of getQnA_bs4.py.
SaveInsert(p) ==
    /\ pc[p] = "insert"
    /\ Commit(p, idx[p])
    /\ Advance(p, idx[p])
    /\ Release(p)
    /\ UNCHANGED <<variant, store_state, table_columns, entries, listing,
                   fetched, run, tasks, fate, details, aborted, store0,
                   skipped, attempted, prev_all, fetch_vars, text_vars, page_vars, lambda_vars>>

NoRun == [p \in Procs |-> <<>>]
NoSet == [p \in Procs |-> {}]

PipeInitWith(pc0, rows) ==
    /\ store = rows
    /\ faults = 0
    /\ pc = pc0
    /\ run = [p \in Procs |-> 0]
    /\ idx = [p \in Procs |-> 1]
    /\ listing = [p \in Procs |-> "not_called"]
    /\ fetched = NoSet
    /\ tasks = NoRun
    /\ fate = NoRun
    /\ details = NoRun
    /\ aborted = [p \in Procs |-> FALSE]
    /\ store0 = NoRun
    /\ skipped = NoSet
    /\ attempted = NoSet
    /\ written = NoSet
    /\ rejected = NoSet
    /\ prev_all = [p \in Procs |-> FALSE]
    /\ conn = [p \in Procs |-> "none"]
    /\ driver = [p \in Procs |-> "none"]
    /\ closes = [p \in Procs |-> 0]
    /\ quits = [p \in Procs |-> 0]

PipeInit(pc0) == PipeInitWith(pc0, <<>>)

FetchIdle ==
    /\ f_urls = <<>>
    /\ f_pc = <<>>
    /\ f_attempts = <<>>
    /\ f_slept = <<>>
    /\ f_result = <<>>

\* No page is being parsed and no title cleaned.
TextIdle ==
    /\ soup = "none"
    /\ parsed = "none"
    /\ raw_title = <<>>
    /\ cleaned = "none"

\* No listing page is being extracted.
PageIdle ==
    /\ items = <<>>
    /\ extracted = "none"

\* lambda_handler is not invoked.
LambdaIdle ==
    /\ l_pc = "off"
    /\ l_calls = 0
    /\ l_items = <<>>
    /\ l_idx = 1
    /\ l_table = {}
    /\ l_table0 = {}
    /\ l_failed = "none"
    /\ l_status = 0

\* The states of the store a run can find: the table is there, naver_kin.db
\* (the DynamoDB account) has no table kin_data, or it cannot be reached.
StoreStates == {"ok", "table_missing", "unreachable"}

\* Sequential runs of one main against a table that starts empty.
Init ==
    /\ variant \in Variants
    /\ store_state \in StoreStates
    /\ table_columns \in (IF variant = "getQnA_Dy" THEN {DynamoKey} ELSE Tables)
    /\ entries \in Listings
    /\ PipeInit([p \in Procs |-> IF p = 1 THEN "idle" ELSE "off"])
    /\ FetchIdle
    /\ TextIdle
    /\ PageIdle
    /\ LambdaIdle

Next ==
    \E p \in Procs :
        \/ StartRun(p)
        \/ Rerun(p)
        \/ FilterStep(p)
        \/ Gather(p)
        \/ PersistStep(p)
        \/ PersistStepBs4(p)
        \/ SaveInsert(p)

Spec == Init /\ [][Next]_vars

(***************************************************************************)
(* Claims checked under Spec                                               *)
(***************************************************************************)
Finished(p) == pc[p] = "done" /\ ~aborted[p]
Positions == DOMAIN search_results(1)

\* C1: a run of main of getQnA.py writes nothing under a url its dedup
\* filter skipped: when the run has ended, the rows stored under a skipped
\* url are the rows that were stored under it when the run began.
C1_SkippedUrlUntouched ==
    (variant = "getQnA" /\ pc[1] = "done") =>
        \A u \in skipped[1] : RowsOf(store, u) = RowsOf(store0[1], u)

\* C2: a second run over the unchanged listing, after a run that wrote every
\* listed candidate, commits no write (claimed of every variant).
C2_SecondRunPersistsNothing ==
    (pc[1] = "done" /\ run[1] >= 2 /\ prev_all[1]) => written[1] = {}

\* C3: in every variant the dedup filter skips exactly the listed urls that
\* have a record in the store: present means not new, absent means new.
C3_DedupCorrect ==
    (pc[1] \in {"gather", "persist", "insert", "done"}) =>
        skipped[1] = {search_results(1)[k] : k \in
                        {j \in Positions : Present(store0[1], search_results(1)[j])}}

\* The store accepted every write the run made.
NoWriteRejected(p) == rejected[p] = {}
DistinctUrls == \A i, j \in Positions : search_results(1)[i] = search_results(1)[j] => i = j
NoneStored(p) == \A k \in Positions : ~Present(store0[p], search_results(1)[k])

\* The C4 cohort: distinct candidates, none stored, every write accepted,
\* exactly one detail fetch exhausts its retries on network errors and every
\* other one succeeds.
C4_Cohort(p) ==
    /\ Finished(p)
    /\ DistinctUrls
    /\ NoneStored(p)
    /\ NoWriteRejected(p)
    /\ DOMAIN fate[p] = Positions
    /\ \E j \in Positions :
         /\ fate[p][j] = "net_fail"
         /\ \A k \in Positions \ {j} : fate[p][k] = "ok"

\* The rows of the candidates whose fetch succeeded, in listing order.
SuccessfulRows(p) ==
    LET all == [k \in Positions |->
                  Row(search_results(1)[k], DetailOf(search_results(1)[k], fate[p][k]))]
    IN SelectSeq(all, LAMBDA r : r.detail # Empty)

\* C4: after the run of such a cohort the store holds, besides what it held
\* before, exactly the N-1 successful records, each under its own url with
\* its own detail, and no record of the failed candidate.
C4_PartialFailureIsolation ==
    C4_Cohort(1) => store = store0[1] \o SuccessfulRows(1)

\* A cohort of three whose middle candidate failed; the other two are stored.
C4_Witness ==
    /\ C4_Cohort(1)
    /\ Len(search_results(1)) = 3
    /\ fate[1][2] = "net_fail"
    /\ Len(store) = 2

\* The task that fetches the candidate at position k: tasks holds the
\* candidates the filter did not skip, in listing order.
TaskIndex(p, k) ==
    Cardinality({j \in 1..k : search_results(1)[j] \notin skipped[p]})

\* C5: when a run has ended (and the store accepted every write), every
\* listed candidate that was not stored when the filter ran and whose detail
\* fetch and parse succeeded has a record under its url.
C5_PersistsAllItCould ==
    (Finished(1) /\ NoWriteRejected(1) /\ StatementOk(variant, table_columns)) =>
        \A k \in Positions :
            (/\ ~Present(store0[1], search_results(1)[k])
             /\ search_results(1)[k] \notin skipped[1]
             /\ fate[1][TaskIndex(1, k)] = "ok")
            => Present(store, search_results(1)[k])

\* C6: against the table delete_table.py creates, sequential runs of main of
\* getQnA.py leave at most one row per url.
C6_UniqueUrlInDdlTable ==
    (variant = "getQnA" /\ table_columns = DdlColumns) =>
        \A u \in URLs : Len(RowsOf(store, u)) <= 1

\* A second run against that table has ended; the listing names one url
\* twice and save_to_database was called for both entries.
C6_Witness ==
    /\ variant = "getQnA"
    /\ table_columns = DdlColumns
    /\ Finished(1)
    /\ run[1] = 2
    /\ \E i, j \in attempted[1] : i < j /\ search_results(1)[i] = search_results(1)[j]

\* C8: a transient error of one detail fetch, network error or timeout, is
\* not fatal: in a run over distinct candidates none of which was stored,
\* against a store that accepts every write, every candidate whose fetch
\* succeeded has a record when the run has ended.
C8_TransientErrorNotFatal ==
    (/\ pc[1] = "done"
     /\ StatementOk(variant, table_columns)
     /\ NoWriteRejected(1)
     /\ DistinctUrls
     /\ NoneStored(1)) =>
        \A k \in DOMAIN fate[1] :
            fate[1][k] = "ok" => Present(store, tasks[1][k])

\* C9: a rejected write is contained to its item: every row the run has
\* written is still in the store, and when the run has ended a save was
\* called for every merged record, which was stored unless its own write
\* was rejected (or, in getQnA_bs4.py, its url was found by the save).
C9_PersistFailureContained ==
    /\ \A k \in written[1] : \E i \in DOMAIN store : store[i] = Merged(1, k)
    /\ Finished(1) =>
         \A k \in 1..ZipLen(search_results(1), details[1]) :
            details[1][k] # Empty =>
               /\ k \in attempted[1]
               /\ \/ k \in written[1]
                  \/ k \in rejected[1]
                  \/ variant = "getQnA_bs4" /\ Present(store, search_results(1)[k])

\* The store rejected the second of three writes of a run; the first and
\* the third are stored.
C9_Witness ==
    /\ Finished(1)
    /\ StatementOk(variant, table_columns)
    /\ rejected[1] = {2}
    /\ written[1] = {1, 3}
    /\ Len(store) = 2

\* C11: a configuration error is fatal before any fetch work: in a run of
\* main of getQnA.py or getQnA_Dy.py that finds the store unreachable or its
\* table missing, neither the listing page nor a detail page is requested.
C11_ConfigErrorBeforeFetch ==
    (variant \in {"getQnA", "getQnA_Dy"} /\ store_state # "ok") =>
        fetched[1] = {}

\* C15: when scrape_search_results ends on the bounded wait or on exhausted
\* retries it returns the empty sequence, and the run requests no detail
\* page, leaves the store as it found it and does not reach main's except
\* clause: it goes through the empty gather to its end.
C15_ListingSoftFail ==
    listing[1] \in {"wait_timeout", "retries_exhausted"} =>
        /\ search_results(1) = <<>>
        /\ tasks[1] = <<>>
        /\ "detail" \notin fetched[1]
        /\ store = store0[1]
        /\ attempted[1] = {}
        /\ ~aborted[1]
        /\ pc[1] \in {"gather", "done"}

\* A second run has ended after the bounded wait for the listing expired;
\* the page lists urls and the store holds the rows of the first run.
C15_Witness ==
    /\ listing[1] = "wait_timeout"
    /\ pc[1] = "done"
    /\ run[1] = 2
    /\ Len(entries) = 2
    /\ Len(store) = 2

\* C16: every record main hands to the store pairs the listing entry of a
\* candidate with the detail fetched from that candidate's url: the detail
\* fields of every stored row were parsed from the page of the row's url.
C16_MergePairing ==
    \A i \in DOMAIN store : store[i].detail = store[i].url

\* C20: every row a run writes has the title, url and date of a listing
\* entry and the detail fields of the detail record it was zipped with; the
\* title of no stored row is the title of a detail page.
C20_MergePrecedence ==
    /\ \A i \in DOMAIN store :
          /\ store[i].title = ListedTitle(store[i].url)
          /\ store[i].date = ListedDate(store[i].url)
    /\ \A i \in DOMAIN store :
          \/ \E j \in DOMAIN store0[1] : store0[1][j] = store[i]
          \/ \E k \in written[1] :
                /\ store[i].url = search_results(1)[k]
                /\ store[i].title = ListedTitle(search_results(1)[k])
                /\ store[i].date = ListedDate(search_results(1)[k])
                /\ store[i].detail = details[1][k]
                /\ DOMAIN store[i] = {"title", "url", "date", "detail"}

\* A run has stored a row whose detail was parsed from the page of another
\* url: the row still has the title of its own listing entry.
C20_Witness ==
    /\ Finished(1)
    /\ \E i \in DOMAIN store :
          /\ store[i].detail # store[i].url
          /\ store[i].title = ListedTitle(store[i].url)

\* C22: on every path by which main of getQnA.py ends, the connection it
\* opened has been closed and the driver, if it was started, has been quit,
\* each by exactly one call; and the store is accessed (dedup check, save)
\* only while the connection is open.
C22_ResourcesReleased ==
    variant = "getQnA" =>
        /\ pc[1] \in {"done", "crashed"} =>
              /\ conn[1] \in {"none", "closed"}
              /\ conn[1] = "closed" => closes[1] = 1
              /\ driver[1] \in {"none", "quit"}
              /\ driver[1] = "quit" => quits[1] = 1
        /\ pc[1] \in {"filter", "persist", "insert"} => conn[1] = "open"

(***************************************************************************)
(* SpecOverlap: two runs of main of getQnA_bs4.py at the same time         *)
(***************************************************************************)
\* Two processes run main once each over the same listing and the same
\* naver_kin.db. Every SQL statement is one step: SQLite serialises the
\* statements, and nothing joins the SELECT of a save with its INSERT.
OverlapInit ==
    /\ variant = "getQnA_bs4"
    /\ table_columns \in Tables
    /\ store_state = "ok"
    /\ entries \in ListingsUpTo(MaxOverlapListing)
    /\ PipeInit([p \in Procs |-> "idle"])
    /\ FetchIdle
    /\ TextIdle
    /\ PageIdle
    /\ LambdaIdle

OverlapNext ==
    \E p \in Procs :
        \/ StartRun(p)
        \/ FilterStep(p)
        \/ Gather(p)
        \/ PersistStepBs4(p)
        \/ SaveInsert(p)

SpecOverlap == OverlapInit /\ [][OverlapNext]_vars

\* C10: when two runs of main of getQnA_bs4.py overlap, the existence check
\* of save_to_database keeps the store at no more than one row per url.
C10_NoDuplicateRows ==
    \A u \in URLs : Len(RowsOf(store, u)) <= 1

(***************************************************************************)
(* SpecFetch: the detail fetches of a cohort, one await at a time          *)
(***************************************************************************)
Cohort == DOMAIN f_urls

\* `for _ in range(MAX_RETRIES)`: another turn of the loop is left.
BudgetLeft_OneMore(i) == f_attempts[i] <= MAX_RETRIES
BudgetLeft(i) == f_attempts[i] < MAX_RETRIES

FetchStep(i, next_pc, attempts, slept, result) ==
    /\ f_pc' = [f_pc EXCEPT ![i] = next_pc]
    /\ f_attempts' = [f_attempts EXCEPT ![i] = attempts]
    /\ f_slept' = [f_slept EXCEPT ![i] = slept]
    /\ f_result' = [f_result EXCEPT ![i] = result]
    /\ UNCHANGED <<f_urls, pipe_vars, text_vars, page_vars, res_vars, lambda_vars>>

\* session.get(url) is entered.
Request(i) ==
    /\ i \in Cohort
    /\ f_pc[i] = "ready"
    /\ BudgetLeft(i)
    /\ FetchStep(i, "inflight", f_attempts[i] + 1, f_slept[i], f_result[i])

\* response.text() returns; the page is parsed into a record, or a missing
\* element raises AttributeError and {} is returned.
RespondPage(i) ==
    /\ i \in Cohort
    /\ f_pc[i] = "inflight"
    /\ \E page \in {"html", "malformed"} :
         FetchStep(i, "returned", f_attempts[i], f_slept[i],
                   IF page = "html" THEN "record" ELSE "parse_empty")

\* aiohttp.ClientError: the warning is logged and asyncio.sleep begins.
ClientError_NoSleep(i) ==
    /\ i \in Cohort
    /\ f_pc[i] = "inflight"
    /\ FetchStep(i, "ready", f_attempts[i], f_slept[i], f_result[i])
ClientError(i) ==
    /\ i \in Cohort
    /\ f_pc[i] = "inflight"
    /\ FetchStep(i, "sleeping", f_attempts[i], f_slept[i], f_result[i])

\* asyncio.TimeoutError is not caught: it leaves scrape_detail_page.
TimeoutError(i) ==
    /\ i \in Cohort
    /\ f_pc[i] = "inflight"
    /\ FetchStep(i, "raised", f_attempts[i], f_slept[i], f_result[i])

\* asyncio.sleep(RETRY_DELAY) returns; the loop takes its next turn.
Wake(i) ==
    /\ i \in Cohort
    /\ f_pc[i] = "sleeping"
    /\ FetchStep(i, "ready", f_attempts[i], f_slept[i] + RETRY_DELAY, f_result[i])

\* The loop is over: the error is logged, "" is returned and
\* scrape_detail_page returns {}.
GiveUp(i) ==
    /\ i \in Cohort
    /\ f_pc[i] = "ready"
    /\ ~BudgetLeft(i)
    /\ FetchStep(i, "returned", f_attempts[i], f_slept[i], "exhausted_empty")

FetchInit ==
    /\ variant = "getQnA"
    /\ table_columns = DdlColumns
    /\ store_state = "ok"
    /\ entries = <<>>
    /\ PipeInit([p \in Procs |-> "off"])
    /\ f_urls \in ListingsUpTo(MaxCohort)
    /\ f_pc = [i \in DOMAIN f_urls |-> "ready"]
    /\ f_attempts = [i \in DOMAIN f_urls |-> 0]
    /\ f_slept = [i \in DOMAIN f_urls |-> 0]
    /\ f_result = [i \in DOMAIN f_urls |-> "none"]
    /\ TextIdle
    /\ PageIdle
    /\ LambdaIdle

FetchNext ==
    \E i \in 1..MaxCohort :
        \/ Request(i)
        \/ RespondPage(i)
        \/ ClientError(i)
        \/ TimeoutError(i)
        \/ Wake(i)
        \/ GiveUp(i)

SpecFetch == FetchInit /\ [][FetchNext]_vars

\* C7: a detail fetch never makes more than MAX_RETRIES requests; one whose
\* every attempt failed with a network error has made exactly MAX_RETRIES,
\* yields the empty result and has spent at least (MAX_RETRIES - 1) *
\* RETRY_DELAY in retry delays; one that got its page at the k-th attempt,
\* after k - 1 failed ones, has made exactly k attempts.
C7_RetryBound ==
    \A i \in Cohort :
        /\ f_attempts[i] <= MAX_RETRIES
        /\ f_slept[i] = MAX_RETRIES * RETRY_DELAY =>
              /\ f_attempts[i] = MAX_RETRIES
              /\ f_pc[i] \in {"ready", "returned"}
              /\ f_pc[i] = "returned" => f_result[i] = "exhausted_empty"
        /\ f_result[i] = "exhausted_empty" =>
              /\ f_attempts[i] = MAX_RETRIES
              /\ f_slept[i] >= (MAX_RETRIES - 1) * RETRY_DELAY
        /\ f_result[i] \in {"record", "parse_empty"} =>
              f_attempts[i] = (f_slept[i] \div RETRY_DELAY) + 1

\* One fetch has exhausted its retries and another got its page at the
\* second attempt.
C7_Witness ==
    \E i, j \in Cohort :
        /\ f_result[i] = "exhausted_empty"
        /\ f_result[j] = "record"
        /\ f_attempts[j] = 2

(***************************************************************************)
(* SpecRun: one run of main of getQnA.py, its detail fetches await by await *)
(***************************************************************************)
MaxRunListing == 2   \* longest listing in SpecRun

\* How the result of a finished task reads as the fate of Spec.
FateOf(result) ==
    CASE result = "record" -> "ok"
      [] result = "parse_empty" -> "parse_fail"
      [] result = "exhausted_empty" -> "net_fail"
      [] OTHER -> "pending"

\* asyncio.gather(*tasks) wraps every coroutine in a task; the tasks start
\* to run when main awaits the gather.
GatherStart(p) ==
    /\ pc[p] = "gather"
    /\ pc' = Upd(pc, p, "gathering")
    /\ fetched' = Upd(fetched, p,
                      fetched[p] \cup (IF tasks[p] = <<>> THEN {} ELSE {"detail"}))
    /\ f_urls' = tasks[p]
    /\ f_pc' = [i \in DOMAIN tasks[p] |-> "ready"]
    /\ f_attempts' = [i \in DOMAIN tasks[p] |-> 0]
    /\ f_slept' = [i \in DOMAIN tasks[p] |-> 0]
    /\ f_result' = [i \in DOMAIN tasks[p] |-> "none"]
    /\ Release(p)
    /\ UNCHANGED <<variant, store_state, table_columns, store, entries, listing,
                   faults, run, idx, tasks, fate, details, aborted, store0,
                   skipped, attempted, written, rejected, prev_all, text_vars, page_vars, lambda_vars>>

\* The gather returns when every task has returned.
GatherDone_FirstCompleted == \E i \in Cohort : f_pc[i] = "returned"
GatherDone == \A i \in Cohort : f_pc[i] = "returned"

\* await asyncio.gather(*tasks) returns the results in the order of tasks.
GatherReturn(p) ==
    /\ pc[p] = "gathering"
    /\ GatherDone
    /\ LET f == [k \in Cohort |-> FateOf(f_result[k])]
           ds == GatherResults(tasks[p], f)
       IN /\ fate' = Upd(fate, p, f)
          /\ details' = Upd(details, p, ds)
          /\ pc' = Upd(pc, p, IF ZipLen(search_results(p), ds) = 0
                              THEN "done" ELSE "persist")
    /\ Release(p)
    /\ UNCHANGED <<variant, store_state, table_columns, store, entries, listing,
                   fetched, faults, run, idx, tasks, aborted, store0, skipped,
                   attempted, written, rejected, prev_all, fetch_vars,
                   text_vars, page_vars, lambda_vars>>

\* The first exception of a task leaves the gather and reaches `except
\* Exception` of main; main ends and asyncio.run cancels the tasks that are
\* still pending.
GatherRaise(p) ==
    /\ pc[p] = "gathering"
    /\ \E i \in Cohort : f_pc[i] = "raised"
    /\ aborted' = Upd(aborted, p, TRUE)
    /\ pc' = Upd(pc, p, "done")
    /\ fate' = Upd(fate, p, [k \in Cohort |->
                  IF f_pc[k] = "raised" THEN "timeout" ELSE FateOf(f_result[k])])
    /\ f_pc' = [i \in Cohort |->
                  IF f_pc[i] \in {"returned", "raised"} THEN f_pc[i]
                  ELSE "cancelled"]
    /\ Release(p)
    /\ UNCHANGED <<variant, store_state, table_columns, store, entries, listing,
                   fetched, faults, run, idx, tasks, details, store0, skipped,
                   attempted, written, rejected, prev_all, f_urls, f_attempts,
                   f_slept, f_result, text_vars, page_vars, lambda_vars>>

\* The rows a table can hold when a run begins: none, or the row an earlier
\* run over a listing of url 1 has written (if the table takes the INSERT).
StoresBefore(cols) ==
    IF StatementOk("getQnA", cols) THEN {<<>>, <<Row(1, 1)>>} ELSE {<<>>}

RunInit ==
    /\ variant = "getQnA"
    /\ store_state = "ok"
    /\ table_columns \in Tables
    /\ entries \in ListingsUpTo(MaxRunListing)
    /\ \E rows \in StoresBefore(table_columns) :
         PipeInitWith([p \in Procs |-> IF p = 1 THEN "idle" ELSE "off"], rows)
    /\ FetchIdle
    /\ TextIdle
    /\ PageIdle
    /\ LambdaIdle

RunNext ==
    \/ StartRun(1)
    \/ FilterStep(1)
    \/ GatherStart(1)
    \/ \E i \in 1..MaxRunListing :
         \/ Request(i)
         \/ RespondPage(i)
         \/ ClientError(i)
         \/ TimeoutError(i)
         \/ Wake(i)
         \/ GiveUp(i)
    \/ GatherReturn(1)
    \/ GatherRaise(1)
    \/ PersistStep(1)

SpecRun == RunInit /\ [][RunNext]_vars

\* The same run when the event loop keeps scheduling main and the tasks and
\* every request attempt eventually returns or fails.
SpecRunFair == RunInit /\ [][RunNext]_vars /\ WF_vars(RunNext)

Range(f) == {f[i] : i \in DOMAIN f}
Started(i) == f_attempts[i] > 0

\* C17: the phases of a run follow in the order listing fetch, dedup filter,
\* detail fetches, merge and persist: the listing was requested before the
\* filter runs, no detail-fetch task exists while the filter runs, a detail
\* request is started only after the existence check of every listed entry,
\* and a save is called (and the store changed) only after every
\* detail-fetch task of the cohort has returned.
C17_PhaseBarrier ==
    /\ pc[1] \in {"filter", "gather", "gathering", "persist"} =>
          "listing" \in fetched[1]
    /\ pc[1] \in {"idle", "filter", "gather"} =>
          /\ \A i \in Cohort : ~Started(i)
          /\ "detail" \notin fetched[1]
    /\ (\E i \in Cohort : Started(i)) =>
          /\ pc[1] \in {"gathering", "persist", "done"}
          /\ \A k \in Positions :
                \/ search_results(1)[k] \in skipped[1]
                \/ search_results(1)[k] \in Range(tasks[1])
    /\ (run[1] > 0 /\ (attempted[1] # {} \/ store # store0[1])) =>
          /\ pc[1] \in {"persist", "done"}
          /\ \A i \in Cohort : f_pc[i] = "returned"

\* A run over two new candidates has ended: the first fetch exhausted its
\* retries, the second was stored.
C17_Witness ==
    /\ Finished(1)
    /\ Len(f_urls) = 2
    /\ f_result[1] = "exhausted_empty"
    /\ written[1] = {2}

\* C18 as claimed: for every listing, one that names a url twice included,
\* no two requests for the same url are in flight at the same time.
C18_NoConcurrentSameUrl ==
    \A i, j \in Cohort :
        (i # j /\ f_urls[i] = f_urls[j]) =>
            ~(f_pc[i] = "inflight" /\ f_pc[j] = "inflight")

\* C18, amended: the attempts of one detail-fetch task are strictly
\* sequential, each after the first starting only when the one before it
\* has failed and its retry delay has elapsed; and for a listing of distinct
\* urls no two requests for the same url are in flight at the same time.
C18_SequentialPerTask ==
    /\ \A i \in Cohort :
          f_pc[i] \in {"inflight", "sleeping"} =>
              /\ f_attempts[i] >= 1
              /\ f_slept[i] = (f_attempts[i] - 1) * RETRY_DELAY
    /\ (\A a, b \in DOMAIN entries : entries[a] = entries[b] => a = b) =>
          \A i, j \in Cohort :
              (f_pc[i] = "inflight" /\ f_pc[j] = "inflight"
                 /\ f_urls[i] = f_urls[j]) => i = j

\* Two tasks for different urls are in flight, one of them at its second
\* attempt after one retry delay.
C18_Witness ==
    \E i, j \in Cohort :
        /\ f_urls[i] # f_urls[j]
        /\ f_pc[i] = "inflight"
        /\ f_pc[j] = "inflight"
        /\ f_attempts[i] = 2
        /\ f_slept[i] = RETRY_DELAY

\* The run ends, by return or by an exception that leaves main (checked
\* under SpecRunFair).
RunEnds == <>(pc[1] \in {"done", "crashed"})

\* C19: a failing detail fetch does not keep the rest of the cohort from
\* being merged and persisted: when a run over distinct candidates, none of
\* them stored, has reached its end against a store that accepts every
\* write, every candidate whose fetch returned a record is stored.
C19_FailingFetchDoesNotBlockCohort ==
    (/\ pc[1] = "done"
     /\ StatementOk(variant, table_columns)
     /\ NoWriteRejected(1)
     /\ DistinctUrls
     /\ NoneStored(1)) =>
        \A i \in Cohort :
            f_result[i] = "record" => Present(store, f_urls[i])

(***************************************************************************)
(* SpecParse: scrape_detail_page parses one fetched page                   *)
(***************************************************************************)
MaxViewsText == 4    \* longest text of the view-count item

\* A text is a sequence of characters. The characters of a view-count item:
\* digits, the thousands separator, and "L" for a character of the label.
DigitChars == <<"0", "1", "2", "3", "4", "5", "6", "7", "8", "9">>
IsDigit(c) == \E i \in DOMAIN DigitChars : DigitChars[i] = c
DigitValue(c) == (CHOOSE i \in DOMAIN DigitChars : DigitChars[i] = c) - 1
ViewChars == {"1", "2", ",", "L"}
ViewTexts == UNION {[1..n -> ViewChars] : n \in 0..MaxViewsText}

\* re.search(r'\d+', text).group(): the first maximal run of digits; <<>>
\* stands for no match (re.search returns None).
FirstDigitRun(text) ==
    LET starts == {i \in DOMAIN text : IsDigit(text[i])} IN
    IF starts = {} THEN <<>>
    ELSE LET a == CHOOSE i \in starts : \A j \in starts : i <= j
             b == CHOOSE j \in a..Len(text) :
                    /\ \A k \in a..j : IsDigit(text[k])
                    /\ j = Len(text) \/ ~IsDigit(text[j + 1])
         IN SubSeq(text, a, b)

\* int(digits)
RECURSIVE ToInt(_)
ToInt(digits) ==
    IF digits = <<>> THEN 0
    ELSE ToInt(SubSeq(digits, 1, Len(digits) - 1)) * 10
         + DigitValue(digits[Len(digits)])

\* The page in soup: which of the elements the parser selects are in it,
\* and the text of the view-count item.
Pages ==
    {pg \in [title_section : BOOLEAN, user_info : BOOLEAN,
             views_item : BOOLEAN, views_text : ViewTexts,
             created_item : BOOLEAN, description : BOOLEAN] :
        /\ pg.views_item => pg.user_info
        /\ pg.created_item => pg.user_info
        /\ ~pg.views_item => pg.views_text = <<>>}

EmptyResult == [kind |-> "empty"]

\* The try block of scrape_detail_page. select_one returns None for an
\* element that is not in the page; None.text and None.group() raise
\* AttributeError, which returns {}. "text" stands for the stripped text of
\* an element that is there. tags and scraped_at need no element.
parse_detail(pg) ==
    IF ~pg.title_section THEN EmptyResult
    ELSE IF ~pg.user_info THEN EmptyResult
    ELSE IF pg.views_item /\ FirstDigitRun(pg.views_text) = <<>> THEN EmptyResult
    ELSE IF ~pg.description THEN EmptyResult
    ELSE [kind |-> "record",
          title |-> "text",
          author |-> "text",
          views |-> IF pg.views_item
                    THEN ToInt(FirstDigitRun(pg.views_text)) ELSE 0,
          created_at |-> IF pg.created_item THEN "text" ELSE "",
          description |-> "text"]

ParseInit ==
    /\ variant = "getQnA"
    /\ store_state = "ok"
    /\ table_columns = DdlColumns
    /\ entries = <<>>
    /\ PipeInit([p \in Procs |-> "off"])
    /\ FetchIdle
    /\ soup \in Pages
    /\ parsed = [kind |-> "unparsed"]
    /\ raw_title = <<>>
    /\ cleaned = "none"
    /\ PageIdle
    /\ LambdaIdle

\* scrape_detail_page parses the page it fetched and returns.
Parse ==
    /\ parsed.kind = "unparsed"
    /\ parsed' = parse_detail(soup)
    /\ UNCHANGED <<soup, raw_title, cleaned, pipe_vars, fetch_vars, page_vars,
                   res_vars, lambda_vars>>

ParseNext == Parse

SpecParse == ParseInit /\ [][ParseNext]_vars

AllElementsPresent(pg) ==
    /\ pg.title_section
    /\ pg.user_info
    /\ pg.views_item
    /\ pg.created_item
    /\ pg.description

\* C12: scrape_detail_page returns a record only for a page that has every
\* structural element it reads: when the title section, the user-info
\* block, the view-count item, the created-at item or the description is
\* absent, the result is the empty result.
C12_RecordComplete ==
    (parsed.kind # "unparsed" /\ ~AllElementsPresent(soup)) =>
        parsed = EmptyResult

\* A view-count text as the site writes it: the label, then a number whose
\* digits may be grouped by separators.
WellFormedCount(text) ==
    \E a \in DOMAIN text :
        /\ \A i \in 1..(a - 1) : text[i] = "L"
        /\ IsDigit(text[a])
        /\ IsDigit(text[Len(text)])
        /\ \A i \in a..Len(text) : IsDigit(text[i]) \/ text[i] = ","
        /\ \A i \in a..(Len(text) - 1) : ~(text[i] = "," /\ text[i + 1] = ",")

\* The number the text shows: its digits, read without the separators.
NumberShown(text) == ToInt(SelectSeq(text, IsDigit))

\* C13: the views of a parsed record is the number shown in the view-count
\* item, thousands separators included (1,234 gives 1234).
C13_ViewsIsNumberShown ==
    (parsed.kind = "record" /\ soup.views_item
        /\ WellFormedCount(soup.views_text)) =>
        parsed.views = NumberShown(soup.views_text)

(***************************************************************************)
(* SpecTitle: clean_title                                                  *)
(***************************************************************************)
MaxTitle == 4        \* longest raw title

\* The boilerplate marker of a listing title, two characters ("jil" and
\* "mun" stand for them), and the whitespace str.split() splits on.
Marker == <<"jil", "mun">>
Whitespace == {" ", "\n"}
TitleChars == {"jil", "mun", "x"} \cup Whitespace
RawTitles == UNION {[1..n -> TitleChars] : n \in 0..MaxTitle}

IsSpace_BlankOnly(c) == c = " "
IsSpace(c) == c \in Whitespace

\* raw_title.replace(marker, ""): the occurrences are found from the left
\* and do not overlap; what is left is not scanned again.
RECURSIVE Replace(_, _)
Replace(text, old) ==
    IF Len(text) < Len(old) THEN text
    ELSE IF SubSeq(text, 1, Len(old)) = old
         THEN Replace(SubSeq(text, Len(old) + 1, Len(text)), old)
         ELSE <<text[1]>> \o Replace(Tail(text), old)

\* text.split(): the maximal runs of characters that are not whitespace.
RECURSIVE Split(_)
Split(text) ==
    IF text = <<>> THEN <<>>
    ELSE IF IsSpace(text[1]) THEN Split(Tail(text))
    ELSE LET n == CHOOSE j \in 1..Len(text) :
                    /\ \A k \in 1..j : ~IsSpace(text[k])
                    /\ j = Len(text) \/ IsSpace(text[j + 1])
         IN <<SubSeq(text, 1, n)>> \o Split(SubSeq(text, n + 1, Len(text)))

\* " ".join(words)
RECURSIVE Join(_)
Join(words) ==
    IF words = <<>> THEN <<>>
    ELSE IF Len(words) = 1 THEN words[1]
    ELSE words[1] \o <<" ">> \o Join(Tail(words))

\* text.strip()
RECURSIVE Strip(_)
Strip(text) ==
    IF text = <<>> THEN <<>>
    ELSE IF IsSpace(text[1]) THEN Strip(Tail(text))
    ELSE IF IsSpace(text[Len(text)]) THEN Strip(SubSeq(text, 1, Len(text) - 1))
    ELSE text

clean_title(raw) == Strip(Join(Split(Replace(raw, Marker))))

TitleInit ==
    /\ variant = "getQnA"
    /\ store_state = "ok"
    /\ table_columns = DdlColumns
    /\ entries = <<>>
    /\ PipeInit([p \in Procs |-> "off"])
    /\ FetchIdle
    /\ soup = "none"
    /\ parsed = "none"
    /\ raw_title \in RawTitles
    /\ cleaned = [done |-> FALSE, text |-> <<>>]
    /\ PageIdle
    /\ LambdaIdle

\* scrape_search_results cleans the title of one entry.
Clean ==
    /\ ~cleaned.done
    /\ cleaned' = [done |-> TRUE, text |-> clean_title(raw_title)]
    /\ UNCHANGED <<soup, parsed, raw_title, pipe_vars, fetch_vars, page_vars,
                   res_vars, lambda_vars>>

TitleNext == Clean

SpecTitle == TitleInit /\ [][TitleNext]_vars

\* The occurrences of the marker in a text, counted from the left without
\* overlap.
RECURSIVE MarkerCount(_)
MarkerCount(text) ==
    IF Len(text) < Len(Marker) THEN 0
    ELSE IF SubSeq(text, 1, Len(Marker)) = Marker
         THEN 1 + MarkerCount(SubSeq(text, Len(Marker) + 1, Len(text)))
         ELSE MarkerCount(Tail(text))

NonSpace(text) == SelectSeq(text, LAMBDA c : c \notin Whitespace)

\* a is b with some characters left out, the others in their order.
RECURSIVE IsSubsequence(_, _)
IsSubsequence(a, b) ==
    IF a = <<>> THEN TRUE
    ELSE IF b = <<>> THEN FALSE
    ELSE IF a[1] = b[1] THEN IsSubsequence(Tail(a), Tail(b))
    ELSE IsSubsequence(a, Tail(b))

\* The padded title with the marker in front and a newline inside.
PaddedTitle ==
    <<" ", " ", "jil", "mun", " ", "x", " ", "y", "\n", " ", "z", " ", " ">>

\* C14: the title clean_title returns has no whitespace at either end, its
\* only whitespace is single spaces between words, and its other characters
\* are those of the raw title, in order, less the two characters of every
\* marker occurrence; the padded title with the marker in front and a
\* newline inside gives its three words separated by single spaces.
C14_TitleNormalized ==
    /\ cleaned.done =>
         LET t == cleaned.text IN
         /\ t # <<>> => t[1] \notin Whitespace /\ t[Len(t)] \notin Whitespace
         /\ \A i \in DOMAIN t : t[i] \in Whitespace => t[i] = " "
         /\ \A i \in 1..(Len(t) - 1) :
               ~(t[i] \in Whitespace /\ t[i + 1] \in Whitespace)
         /\ IsSubsequence(NonSpace(t), NonSpace(raw_title))
         /\ Len(NonSpace(raw_title)) - Len(NonSpace(t))
               = Len(Marker) * MarkerCount(raw_title)
         /\ MarkerCount(raw_title) = 0 => NonSpace(t) = NonSpace(raw_title)
    /\ clean_title(PaddedTitle) = <<"x", " ", "y", " ", "z">>

\* A raw title with the marker in front, then a newline and one word, was
\* cleaned to the word.
C14_Witness ==
    /\ cleaned.done
    /\ raw_title = <<"jil", "mun", "\n", "x">>
    /\ cleaned.text = <<"x">>

(***************************************************************************)
(* SpecListing: the extraction loop of scrape_search_results               *)
(***************************************************************************)
MaxItems == 3        \* most li elements of the listing page

NoUrl == 0           \* the None get_attribute('href') returns

\* An li element of the result list: the url its anchor links to, and which
\* of the parts the loop reads are there (the href only if the anchor is).
ItemShapes ==
    {sh \in [anchor : BOOLEAN, href : BOOLEAN, date : BOOLEAN] :
        sh.href => sh.anchor}
ItemLists ==
    {its \in UNION {[1..n -> [url : URLs, shape : ItemShapes]] :
                       n \in 0..MaxItems} :
        FirstAppearance([i \in DOMAIN its |-> its[i].url])}

\* The body of the try statement for one li element: the entry it appends,
\* or the exception it raises. selenium's find_element raises
\* NoSuchElementException and get_attribute returns None; BeautifulSoup's
\* select_one returns None (None.text is an AttributeError) and
\* title_element['href'] raises KeyError.
extract_entry(v, item) ==
    IF v = "getQnA_bs4"
    THEN IF ~item.shape.anchor THEN [kind |-> "AttributeError"]
         ELSE IF ~item.shape.href THEN [kind |-> "KeyError"]
         ELSE IF ~item.shape.date THEN [kind |-> "AttributeError"]
         ELSE [kind |-> "entry", entry |-> ListingEntry(item.url)]
    ELSE IF ~item.shape.anchor THEN [kind |-> "NoSuchElementException"]
         ELSE IF ~item.shape.date THEN [kind |-> "NoSuchElementException"]
         ELSE [kind |-> "entry",
               entry |-> ListingEntry(IF item.shape.href THEN item.url
                                      ELSE NoUrl)]

\* The except clause of the loop body.
Caught_Nothing(v, exc) == FALSE
Caught(v, exc) ==
    IF v = "getQnA_bs4" THEN exc \in {"AttributeError", "TypeError"}
    ELSE exc \in {"StaleElementReferenceException", "NoSuchElementException"}

\* for index, item in enumerate(items, start=1): ...; return search_results.
\* An exception the loop body does not catch leaves scrape_search_results.
RECURSIVE extract_entries(_, _, _)
extract_entries(v, its, acc) ==
    IF its = <<>> THEN [done |-> TRUE, kind |-> "returned", results |-> acc]
    ELSE LET o == extract_entry(v, Head(its)) IN
         IF o.kind = "entry"
         THEN extract_entries(v, Tail(its), Append(acc, o.entry))
         ELSE IF Caught(v, o.kind)
         THEN extract_entries(v, Tail(its), acc)
         ELSE [done |-> TRUE, kind |-> "raised", results |-> <<>>]

ListingInit ==
    /\ variant \in Variants
    /\ store_state = "ok"
    /\ table_columns = (IF variant = "getQnA_Dy" THEN DynamoKey ELSE DdlColumns)
    /\ entries = <<>>
    /\ PipeInit([p \in Procs |-> "off"])
    /\ FetchIdle
    /\ TextIdle
    /\ items \in ItemLists
    /\ extracted = [done |-> FALSE, kind |-> "none", results |-> <<>>]
    /\ LambdaIdle

\* scrape_search_results runs its loop over the li elements and returns.
Extract ==
    /\ ~extracted.done
    /\ extracted' = extract_entries(variant, items, <<>>)
    /\ UNCHANGED <<items, pipe_vars, fetch_vars, text_vars, res_vars, lambda_vars>>

ListingNext == Extract

SpecListing == ListingInit /\ [][ListingNext]_vars

\* The entry is well-formed: anchor, href and date are there.
WellFormed(item) == item.shape.anchor /\ item.shape.href /\ item.shape.date
\* The entry is malformed as the claim names it: the title anchor or the
\* date element is missing (and an anchor that is there has its href).
AnchorOrDateMissing(item) ==
    /\ ~item.shape.anchor \/ ~item.shape.date
    /\ item.shape.anchor => item.shape.href

\* C21: when the malformed entries of a listing are entries whose title
\* anchor or date element is missing, scrape_search_results returns, and its
\* result holds the candidate of every well-formed entry and nothing else,
\* in listing order, whether the entry comes before or after a malformed one.
C21_EntryFaultIsolated ==
    (/\ extracted.done
     /\ \A i \in DOMAIN items :
           WellFormed(items[i]) \/ AnchorOrDateMissing(items[i])) =>
        /\ extracted.kind = "returned"
        /\ LET good == SelectSeq(items, WellFormed)
           IN extracted.results =
                 [k \in DOMAIN good |->
                     [title |-> ListedTitle(good[k].url),
                      url |-> good[k].url,
                      date |-> ListedDate(good[k].url)]]

\* Three entries, the middle one without its date element: the candidates
\* of the first and the third were returned.
C21_Witness ==
    /\ extracted.done
    /\ Len(items) = 3
    /\ WellFormed(items[1])
    /\ items[2].shape.anchor /\ ~items[2].shape.date
    /\ WellFormed(items[3])
    /\ Len(extracted.results) = 2
    /\ extracted.results[1].url = items[1].url
    /\ extracted.results[2].url = items[3].url

(***************************************************************************)
(* SpecLambda: lambda_handler of getQuestion1.py                           *)
(***************************************************************************)
MaxInvocations == 2  \* invocations of lambda_handler per behaviour

DISPLAY == 3         \* display=3 of the search request: items per response

\* The link of an item: the rest of the url, and what extract_id_from_url
\* reads of it, the values of its query parameters dirId and docId, '' for
\* one that is not there (two links without either have the same id).
Links ==
    {[rest |-> "a", dirId |-> "4", docId |-> "1"],
     [rest |-> "a", dirId |-> "4", docId |-> "2"],
     [rest |-> "a", dirId |-> "", docId |-> ""],
     [rest |-> "b", dirId |-> "", docId |-> ""]}
ApiItems == UNION {[1..n -> Links] : n \in 0..DISPLAY}

\* f"{dir_id}_{doc_id}"
extract_id_from_url(link) == <<link.dirId, "_", link.docId>>

\* What urlopen and the decoding of the response can do: urlopen raises
\* (URLError, or HTTPError for a status outside 2xx); the response has a 2xx
\* status other than 200; json.loads raises or the body has no 'items';
\* lastBuildDate is missing or not in the format strptime expects; or the
\* body decodes to a list of items.
ApiOutcomes == {"raises", "other_status", "bad_body", "bad_date", "items"}
OtherSuccessCodes == {201, 204}

\* The Item of put_item for one link, in the invocation whose lastBuildDate
\* is named by stamp (title and description are left out).
ItemOf(link, stamp) ==
    [id |-> extract_id_from_url(link), url |-> link, stamp |-> stamp,
     proceed |-> FALSE, is_related |-> "None"]

\* table.put_item(Item=...): the item replaces the one with the same id.
table_put_item(tbl, item) == {x \in tbl : x.id # item.id} \cup {item}

\* except Exception: nothing is undone, the table stays as the puts made it.
OnPutError_Rollback == l_table0
OnPutError == l_table

LambdaReturn(status, failed) ==
    /\ l_pc' = "returned"
    /\ l_status' = status
    /\ l_failed' = failed

\* lambda_handler is invoked: the request is sent and the response decoded,
\* up to the first turn of the item loop.
Invoke ==
    /\ l_pc \in {"idle", "returned"}
    /\ l_calls < MaxInvocations
    /\ l_calls' = l_calls + 1
    /\ l_table0' = l_table
    /\ l_idx' = 1
    /\ \E o \in ApiOutcomes :
         CASE o = "raises" ->
                /\ LambdaReturn(500, "api")
                /\ l_items' = <<>>
           [] o = "other_status" ->
                /\ \E code \in OtherSuccessCodes : LambdaReturn(code, "status")
                /\ l_items' = <<>>
           [] o = "bad_body" ->
                /\ LambdaReturn(500, "body")
                /\ l_items' = <<>>
           [] o = "bad_date" ->
                /\ LambdaReturn(500, "date")
                /\ l_items' = <<>>
           [] o = "items" ->
                \E its \in ApiItems :
                    /\ l_items' = its
                    /\ IF its = <<>> THEN LambdaReturn(200, "none")
                       ELSE /\ l_pc' = "putting"
                            /\ l_status' = 0
                            /\ l_failed' = "none"
    /\ UNCHANGED <<l_table, pipe_vars, fetch_vars, text_vars, page_vars,
                   res_vars>>

\* One turn of `for item in search_result['items']` whose put_item returns;
\* after the last one the handler returns 200.
PutItemOk ==
    /\ l_pc = "putting"
    /\ l_table' = table_put_item(l_table, ItemOf(l_items[l_idx], l_calls))
    /\ l_idx' = l_idx + 1
    /\ IF l_idx = Len(l_items) THEN LambdaReturn(200, "none")
       ELSE UNCHANGED <<l_pc, l_status, l_failed>>
    /\ UNCHANGED <<l_calls, l_items, l_table0, pipe_vars, fetch_vars,
                   text_vars, page_vars, res_vars>>

\* put_item raises: the except clause returns 500.
PutItemFails ==
    /\ l_pc = "putting"
    /\ l_table' = OnPutError
    /\ LambdaReturn(500, "put")
    /\ UNCHANGED <<l_calls, l_items, l_idx, l_table0, pipe_vars, fetch_vars,
                   text_vars, page_vars, res_vars>>

LambdaInit ==
    /\ variant = "getQnA"
    /\ store_state = "ok"
    /\ table_columns = DdlColumns
    /\ entries = <<>>
    /\ PipeInit([p \in Procs |-> "off"])
    /\ FetchIdle
    /\ TextIdle
    /\ items = <<>>
    /\ extracted = "none"
    /\ l_pc = "idle"
    /\ l_calls = 0
    /\ l_items = <<>>
    /\ l_idx = 1
    /\ l_table = {}
    /\ l_table0 = {}
    /\ l_failed = "none"
    /\ l_status = 0

LambdaNext ==
    \/ Invoke
    \/ PutItemOk
    \/ PutItemFails

SpecLambda == LambdaInit /\ [][LambdaNext]_vars

\* The positions whose put_item has returned in this invocation.
Put == 1..(l_idx - 1)

\* The last position put under the id of position k.
LastPut(k) ==
    CHOOSE j \in Put :
        /\ extract_id_from_url(l_items[j]) = extract_id_from_url(l_items[k])
        /\ \A i \in Put :
              extract_id_from_url(l_items[i]) = extract_id_from_url(l_items[k])
                  => i <= j

\* The table holds, under the id derived from the link at position k, an
\* item of this invocation with proceed False and is_related None: the one
\* of the last position put under that id.
WrittenNow(k) ==
    \E it \in l_table :
        /\ it.id = extract_id_from_url(l_items[k])
        /\ it.url = l_items[LastPut(k)]
        /\ it.stamp = l_calls
        /\ it.proceed = FALSE
        /\ it.is_related = "None"

\* C23: lambda_handler returns 200 only when nothing failed and every item of
\* the response has been put, each under the id derived from its link with
\* proceed False and is_related None; when urlopen, the decoding of the
\* response, the date parsing or a put_item raises it returns 500; a failure
\* before the loop leaves the table as it was, and after a failing put_item
\* the items put before it in the invocation are in the table and no other
\* item has changed.
C23_StatusAndNoRollback ==
    l_pc = "returned" =>
        /\ l_status = 200 =>
              /\ l_failed = "none"
              /\ Put = DOMAIN l_items
              /\ \A k \in DOMAIN l_items : WrittenNow(k)
        /\ l_failed \in {"api", "body", "date", "put"} => l_status = 500
        /\ l_failed \in {"api", "body", "date", "status"} => l_table = l_table0
        /\ l_status = 500 =>
              /\ \A k \in Put : WrittenNow(k)
              /\ \A it \in l_table0 :
                    (\A k \in Put :
                        it.id # extract_id_from_url(l_items[k])) =>
                    it \in l_table
              /\ \A it \in l_table :
                    it \in l_table0 \/ \E k \in Put :
                                          it = ItemOf(l_items[k], l_calls)

\* The third put_item of a second invocation raised: 500 was returned and
\* the two items put before it are in the table.
C23_Witness ==
    /\ l_pc = "returned"
    /\ l_calls = 2
    /\ l_status = 500
    /\ l_failed = "put"
    /\ l_idx = 3
    /\ l_items[1] # l_items[2]
    /\ l_table0 # {}
    /\ WrittenNow(1)
    /\ WrittenNow(2)

====
